---------------------------- MODULE Spec2Model ----------------------------
(***************************************************************************)
(* PiGx RNAseq workflow definition (snakefile.py).                         *)
(*                                                                         *)
(* The workflow file is a script that is evaluated top to bottom (the      *)
(* "load" phase: configuration validation, sample sheet, conditional       *)
(* output lists, the target catalog, the selected OUTPUT_FILES, the rule   *)
(* declarations) and then handed to the workflow engine, which calls the   *)
(* onstart handler, runs the jobs needed for rule all, and calls the       *)
(* onsuccess handler when every job succeeded.                             *)
(*                                                                         *)
(* Paths and names are sequences of tokens: a token is a maximal run of    *)
(* characters without "." and "/", and the separators "." and "/" are      *)
(* tokens of their own.  String concatenation is \o, so two paths built    *)
(* from different templates are equal exactly when their strings are.      *)
(***************************************************************************)
EXTENDS Integers, Sequences, FiniteSets, TLC

VARIABLES
  config,          \* the configuration of this invocation (read-only)
  pc,              \* position in the workflow script / engine life cycle
  err,             \* NoError or the error that aborted the invocation
  SAMPLES,         \* line 114
  BIGWIG_OUTPUT,   \* lines 118-127
  COLLATED,        \* lines 129-142: the three COLLATED_* lists
  targets,         \* lines 144-236: the target catalog (name -> files)
  OUTPUT_FILES,    \* lines 244-246
  dag,             \* the jobs the engine needs for rule all: job -> upstream jobs
  st,              \* job -> state
  fs,              \* existing path -> modification time
  fs0,             \* the file system as it was when the invocation began
  expected_files,  \* line 287: path -> mtime recorded by onstart
  reported,        \* the lines "  - name" printed by onsuccess
  exit             \* exit status of the invocation (-1 while running)

vars == <<config, pc, err, SAMPLES, BIGWIG_OUTPUT, COLLATED, targets,
          OUTPUT_FILES, dag, st, fs, fs0, expected_files, reported, exit>>

\* A Python name that has not been assigned yet.
Undefined == << <<"undefined">> >>

-----------------------------------------------------------------------------
(* Bounds of the model *)

MaxSamples == 2
MaxTargets == 2
MaxAnalyses == 1
MaxJobs == 2

-----------------------------------------------------------------------------
(* Strings and paths *)

Dot == <<".">>
Sep == <<"/">>

\* os.path.join of relative components
Join2(a, b) == a \o Sep \o b
Join3(a, b, c) == Join2(Join2(a, b), c)
Join4(a, b, c, d) == Join2(Join3(a, b, c), d)

RECURSIVE SplitAt(_, _, _)
\* the segments of a path: SplitAt(p, <<>>, <<>>) is p.split("/")
SplitAt(p, cur, acc) ==
  IF p = <<>> THEN Append(acc, cur)
  ELSE IF Head(p) = "/" THEN SplitAt(Tail(p), <<>>, Append(acc, cur))
  ELSE SplitAt(Tail(p), Append(cur, Head(p)), acc)

Segments(p) == SplitAt(p, <<>>, <<>>)

HasSegment(p, seg) == \E i \in DOMAIN Segments(p) : Segments(p)[i] = seg

Range(s) == {s[i] : i \in DOMAIN s}

NoDuplicates(s) == \A i, j \in DOMAIN s : i # j => s[i] # s[j]

Count(s, x) == Cardinality({i \in DOMAIN s : s[i] = x})

RECURSIVE Flatten(_)
\* itertools.chain.from_iterable over a list of lists
Flatten(ll) == IF ll = <<>> THEN <<>> ELSE Head(ll) \o Flatten(Tail(ll))

\* [f(x) for x in s]
Map(s, f(_)) == [i \in DOMAIN s |-> f(s[i])]

-----------------------------------------------------------------------------
(* Configuration (lines 34-40, 90-93) *)

OUTPUT_DIR == <<"out">>
READS_DIR == <<"reads">>
GENOME_FASTA == <<"genome", ".", "fa">>
CDNA_FASTA == <<"cdna", ".", "fa">>
GTF_FILE == <<"genes", ".", "gtf">>
SAMPLE_SHEET_FILE == <<"sample_sheet", ".", "csv">>
LOGO == <<"Logo_PiGx", ".", "png">>

TRIMMED_READS_DIR == Join2(OUTPUT_DIR, <<"trimmed_reads">>)
LOG_DIR == Join2(OUTPUT_DIR, <<"logs">>)
QC_DIR == Join2(OUTPUT_DIR, <<"QC">>)
MULTIQC_DIR == Join2(OUTPUT_DIR, <<"multiqc">>)
MAPPED_READS_DIR == Join2(OUTPUT_DIR, <<"mapped_reads">>)
BIGWIG_DIR == Join2(OUTPUT_DIR, <<"bigwig_files">>)
COUNTS_DIR == Join2(OUTPUT_DIR, <<"feature_counts">>)
SALMON_DIR == Join2(OUTPUT_DIR, <<"salmon_output">>)


-----------------------------------------------------------------------------
(* The sample sheet (lines 102-114) *)

\* [record[field] for record in records for field in fields], for the
\* records whose column `name` equals the predicate
Lookup(cf, sample, fields) ==
  LET records == SelectSeq(cf.sheet, LAMBDA line : line.name = sample)
  IN  Flatten(Map(records, LAMBDA record : Map(fields, LAMBDA field : record[field])))

\* the populated read fields of a sample, joined to READS_DIR
ReadsFiles(cf, sample) ==
  Map(SelectSeq(Lookup(cf, sample, <<"reads", "reads2">>), LAMBDA f : f # <<>>),
      LAMBDA f : Join2(READS_DIR, f))

SampleNames(cf) == Map(cf.sheet, LAMBDA line : line.name)

-----------------------------------------------------------------------------
(* File name patterns of the rules *)

InputAnnotationStats == Join2(OUTPUT_DIR, <<"input_annotation_stats", ".", "tsv">>)
AnnotationsTgz == Join2(OUTPUT_DIR, <<"annotations", ".", "tgz">>)
ColData == Join2(OUTPUT_DIR, <<"colData", ".", "tsv">>)
MultiqcReport == Join2(MULTIQC_DIR, <<"multiqc_report", ".", "html">>)

TrimmedR1(s) == Join2(TRIMMED_READS_DIR, s \o <<".", "trimmed", ".", "R1", ".", "fq", ".", "gz">>)
TrimmedR2(s) == Join2(TRIMMED_READS_DIR, s \o <<".", "trimmed", ".", "R2", ".", "fq", ".", "gz">>)
TrimmedSE(s) == Join2(TRIMMED_READS_DIR, s \o <<".", "trimmed", ".", "fq", ".", "gz">>)
FastpReport(s, lib, ext) == Join2(QC_DIR, s \o <<".", lib, ".", "fastp", ".", ext>>)

StarIndexFile == Join3(OUTPUT_DIR, <<"star_index">>, <<"SAindex">>)
Hisat2IndexFiles ==
  {Join3(OUTPUT_DIR, <<"hisat2_index">>, <<"build_index", ".", n, ".", "ht2l">>) :
     n \in {"1", "2", "3", "4", "5", "6", "7", "8"}}
SalmonIndexFile(name) == Join3(OUTPUT_DIR, <<"salmon_index">>, name)
SalmonIndexFiles ==
  {SalmonIndexFile(n) : n \in
     {<<"complete_ref_lens", ".", "bin">>, <<"ctable", ".", "bin">>,
      <<"ctg_offsets", ".", "bin">>, <<"duplicate_clusters", ".", "tsv">>,
      <<"info", ".", "json">>, <<"mphf", ".", "bin">>, <<"pos", ".", "bin">>,
      <<"rank", ".", "bin">>, <<"refAccumLengths", ".", "bin">>,
      <<"ref_indexing", ".", "log">>, <<"reflengths", ".", "bin">>,
      <<"refseq", ".", "bin">>, <<"seq", ".", "bin">>,
      <<"versionInfo", ".", "json">>}}

Bam(m, s) ==
  Join3(MAPPED_READS_DIR, m, s \o <<"_Aligned", ".", "sortedByCoord", ".", "out", ".", "bam">>)
Bai(m, s) == Bam(m, s) \o <<".", "bai">>
ReadCounts(m, s) == Join3(MAPPED_READS_DIR, m, s \o <<".", "read_counts", ".", "csv">>)

BigwigForward(m, s) == Join4(BIGWIG_DIR, m, <<"bamCoverage">>, s \o <<".", "forward", ".", "bw">>)
BigwigReverse(m, s) == Join4(BIGWIG_DIR, m, <<"bamCoverage">>, s \o <<".", "reverse", ".", "bw">>)
BigwigBoth(m, s) == Join4(BIGWIG_DIR, m, <<"bamCoverage">>, s \o <<".", "bw">>)
BigwigMegadepth(m, s) == Join4(BIGWIG_DIR, m, <<"megadepth">>, s \o <<".", "all", ".", "bw">>)

QuantSf(s) == Join3(SALMON_DIR, s, <<"quant", ".", "sf">>)
QuantGenesSf(s) == Join3(SALMON_DIR, s, <<"quant", ".", "genes", ".", "sf">>)
FlenDist(s) == Join4(SALMON_DIR, s, <<"libParams">>, <<"flenDist", ".", "txt">>)

SalmonCounts ==
  << Join4(COUNTS_DIR, <<"raw_counts">>, <<"salmon">>, <<"counts_from_SALMON", ".", "transcripts", ".", "tsv">>),
     Join4(COUNTS_DIR, <<"raw_counts">>, <<"salmon">>, <<"counts_from_SALMON", ".", "genes", ".", "tsv">>),
     Join4(COUNTS_DIR, <<"normalized">>, <<"salmon">>, <<"TPM_counts_from_SALMON", ".", "transcripts", ".", "tsv">>),
     Join4(COUNTS_DIR, <<"normalized">>, <<"salmon">>, <<"TPM_counts_from_SALMON", ".", "genes", ".", "tsv">>) >>

CountsTsv(m) == Join4(COUNTS_DIR, <<"raw_counts">>, m, <<"counts", ".", "tsv">>)
NormCounts(m) == Join4(COUNTS_DIR, <<"normalized">>, m, <<"deseq_normalized_counts", ".", "tsv">>)
SizeFactors(m) == Join4(COUNTS_DIR, <<"normalized">>, m, <<"deseq_size_factors", ".", "txt">>)

\* report1: kind = <<>>; report2: <<".", "salmon", ".", "transcripts">>;
\* report3: <<".", "salmon", ".", "genes">>
ReportHtml(dir, a, kind) ==
  Join4(OUTPUT_DIR, <<"report">>, dir, a \o kind \o <<".", "deseq", ".", "report", ".", "html">>)
ReportTsv(dir, a, kind) ==
  Join4(OUTPUT_DIR, <<"report">>, dir, a \o kind \o <<".", "deseq_results", ".", "tsv">>)
\* collated.deseq_results.tsv, collated.transcripts.deseq_results.tsv, ...
CollatedTsv(dir, level) ==
  Join4(OUTPUT_DIR, <<"report">>, dir, <<"collated">> \o level \o <<".", "deseq_results", ".", "tsv">>)

KindTranscripts == <<".", "salmon", ".", "transcripts">>
KindGenes == <<".", "salmon", ".", "genes">>
Salmon == <<"salmon">>


-----------------------------------------------------------------------------
(* Input functions of the rules (lines 313-326, 382-388) *)

\* isSingleEnd: False for two populated read fields, True for one,
\* None (no return statement is reached) for any other count
isSingleEnd(cf, sample) ==
  LET files == Lookup(cf, sample, <<"reads", "reads2">>)
      count == Cardinality({i \in DOMAIN files : files[i] # <<>>})
  IN  IF count = 2 THEN "False" ELSE IF count = 1 THEN "True" ELSE "None"

trim_reads_input(cf, sample) == ReadsFiles(cf, sample)

\* an input function that hands no reads to the mapping job
map_input_none(cf, sample) == <<>>

\* an input function that takes every sample for single-end
map_input_single(cf, sample) == <<TrimmedSE(sample)>>

\* map_input: the trimmed reads a mapping job of the sample consumes
map_input(cf, sample) ==
  LET reads_files == ReadsFiles(cf, sample)
  IN  IF Len(reads_files) > 1 THEN <<TrimmedR1(sample), TrimmedR2(sample)>>
      ELSE IF Len(reads_files) = 1 THEN <<TrimmedSE(sample)>>
      ELSE <<>>

-----------------------------------------------------------------------------
(* The rules (lines 248-788).  A job is a rule with its wildcard bound:    *)
(* [rule |-> name, wc |-> value of {sample} or {analysis}, <<>> if none].  *)

PerSampleRules ==
  {"trim_qc_reads_pe", "trim_qc_reads_se", "star_map", "hisat2_map", "index_bam",
   "salmon_quant", "coverage_megadepth", "coverage_bamCoverage", "count_reads"}
PerAnalysisRules == {"report1", "report2", "report3"}
SingletonRules ==
  {"check_annotation_files", "record_annotation_files",
   "translate_sample_sheet_for_report", "star_index", "hisat2_index",
   "salmon_index", "counts_from_SALMON", "multiqc", "collate_read_counts",
   "norm_counts_deseq", "deseq_collate_report1", "deseq_collate_report2",
   "deseq_collate_report3"}

Job(rule, wc) == [rule |-> rule, wc |-> wc]

\* every instance of every rule for the samples and analyses of cf
Jobs(cf) ==
  {Job(r, <<>>) : r \in SingletonRules}
    \cup {Job(r, s) : r \in PerSampleRules, s \in Range(SampleNames(cf))}
    \cup {Job(r, a) : r \in PerAnalysisRules, a \in Range(cf.DEanalyses)}

AnnotationInputs == {GENOME_FASTA, CDNA_FASTA, GTF_FILE}

\* the multiqc rule's output (line 564)
MultiqcOutput(cf) == {MultiqcReport}

\* the declared outputs of a job
JobOutputs(cf, j) ==
  LET m == <<cf.mapper>>
      w == j.wc
  IN  CASE j.rule = "check_annotation_files" -> {InputAnnotationStats}
        [] j.rule = "record_annotation_files" -> {AnnotationsTgz}
        [] j.rule = "translate_sample_sheet_for_report" -> {ColData}
        [] j.rule = "trim_qc_reads_pe" ->
             {TrimmedR1(w), TrimmedR2(w), FastpReport(w, "pe", "html"), FastpReport(w, "pe", "json")}
        [] j.rule = "trim_qc_reads_se" ->
             {TrimmedSE(w), FastpReport(w, "se", "html"), FastpReport(w, "se", "json")}
        [] j.rule = "star_index" -> {StarIndexFile}
        [] j.rule = "hisat2_index" -> Hisat2IndexFiles
        [] j.rule = "star_map" -> {Bam(<<"star">>, w)}
        [] j.rule = "hisat2_map" -> {Bam(<<"hisat2">>, w)}
        [] j.rule = "index_bam" -> {Bai(m, w)}
        [] j.rule = "salmon_index" -> SalmonIndexFiles
        [] j.rule = "salmon_quant" -> {QuantSf(w), QuantGenesSf(w), FlenDist(w)}
        [] j.rule = "counts_from_SALMON" -> Range(SalmonCounts)
        [] j.rule = "coverage_megadepth" -> {BigwigMegadepth(m, w)}
        [] j.rule = "coverage_bamCoverage" ->
             {BigwigForward(m, w), BigwigReverse(m, w), BigwigBoth(m, w)}
        [] j.rule = "multiqc" -> MultiqcOutput(cf)
        [] j.rule = "count_reads" -> {ReadCounts(m, w)}
        [] j.rule = "collate_read_counts" -> {CountsTsv(m)}
        [] j.rule = "norm_counts_deseq" -> {SizeFactors(m), NormCounts(m)}
        [] j.rule = "report1" -> {ReportHtml(m, w, <<>>), ReportTsv(m, w, <<>>)}
        [] j.rule = "deseq_collate_report1" -> {CollatedTsv(m, <<>>)}
        [] j.rule = "report2" ->
             {ReportHtml(Salmon, w, KindTranscripts), ReportTsv(Salmon, w, KindTranscripts)}
        [] j.rule = "deseq_collate_report2" -> {CollatedTsv(Salmon, <<".", "transcripts">>)}
        [] j.rule = "report3" ->
             {ReportHtml(Salmon, w, KindGenes), ReportTsv(Salmon, w, KindGenes)}
        [] j.rule = "deseq_collate_report3" -> {CollatedTsv(Salmon, <<".", "genes">>)}

\* index rules that do not wait for the annotation check
CheckedNone == {}

\* rules.check_annotation_files.output, an input of the three index rules
\* (lines 359, 372, 449)
Checked == {InputAnnotationStats}

\* the declared inputs of a job
JobInputs(cf, j) ==
  LET m == <<cf.mapper>>
      w == j.wc
      S == Range(SampleNames(cf))
      A == Range(cf.DEanalyses)
  IN  CASE j.rule = "check_annotation_files" -> AnnotationInputs
        [] j.rule = "record_annotation_files" -> AnnotationInputs
        [] j.rule = "translate_sample_sheet_for_report" -> {SAMPLE_SHEET_FILE}
        [] j.rule = "trim_qc_reads_pe" -> Range(trim_reads_input(cf, w))
        [] j.rule = "trim_qc_reads_se" -> Range(trim_reads_input(cf, w))
        [] j.rule = "star_index" -> {GTF_FILE, GENOME_FASTA} \cup Checked
        [] j.rule = "hisat2_index" -> {GENOME_FASTA} \cup Checked
        [] j.rule = "star_map" -> {StarIndexFile} \cup Range(map_input(cf, w))
        [] j.rule = "hisat2_map" -> Hisat2IndexFiles \cup Range(map_input(cf, w))
        [] j.rule = "index_bam" -> {Bam(m, w)}
        [] j.rule = "salmon_index" -> {CDNA_FASTA} \cup Checked
        [] j.rule = "salmon_quant" ->
             {GTF_FILE} \cup SalmonIndexFiles \cup Range(map_input(cf, w))
        [] j.rule = "counts_from_SALMON" ->
             {QuantSf(s) : s \in S} \cup {QuantGenesSf(s) : s \in S} \cup {ColData}
        [] j.rule = "coverage_megadepth" -> {Bam(m, w), Bai(m, w)}
        [] j.rule = "coverage_bamCoverage" -> {Bam(m, w), Bai(m, w)}
        [] j.rule = "multiqc" ->
             {QuantSf(s) : s \in S} \cup {FlenDist(s) : s \in S} \cup {Bam(m, s) : s \in S}
        [] j.rule = "count_reads" -> {GTF_FILE, Bam(m, w), Bai(m, w)}
        [] j.rule = "collate_read_counts" -> {ColData} \cup {ReadCounts(m, s) : s \in S}
        [] j.rule = "norm_counts_deseq" -> {CountsTsv(m), ColData}
        [] j.rule = "report1" -> {GTF_FILE, LOGO, CountsTsv(m), ColData}
        [] j.rule = "deseq_collate_report1" ->
             {ReportHtml(m, a, <<>>) : a \in A} \cup {ReportTsv(m, a, <<>>) : a \in A}
        [] j.rule = "report2" -> {GTF_FILE, LOGO, SalmonCounts[1], ColData}
        [] j.rule = "deseq_collate_report2" ->
             {ReportHtml(Salmon, a, KindTranscripts) : a \in A}
               \cup {ReportTsv(Salmon, a, KindTranscripts) : a \in A}
        [] j.rule = "report3" -> {GTF_FILE, LOGO, SalmonCounts[2], ColData}
        [] j.rule = "deseq_collate_report3" ->
             {ReportHtml(Salmon, a, KindGenes) : a \in A}
               \cup {ReportTsv(Salmon, a, KindGenes) : a \in A}

\* the global index from job to the output paths it declares
OutputIndex(cf) == {[job |-> j, outputs |-> JobOutputs(cf, j)] : j \in Jobs(cf)}

\* the jobs that declare path f as an output
ProducersIn(index, f) == {e.job : e \in {x \in index : f \in x.outputs}}
Producers(cf, f) == ProducersIn(OutputIndex(cf), f)

\* the jobs a job waits for: the producers of its inputs
UpstreamIn(cf, index, j) == UNION {ProducersIn(index, f) : f \in JobInputs(cf, j)}
Upstream(cf, j) == UpstreamIn(cf, OutputIndex(cf), j)

RECURSIVE Closure(_, _, _, _)
\* the dependency graph of the jobs in `frontier` and of everything upstream
\* of them, added to `graph` (job -> the jobs it waits for)
Closure(cf, index, graph, frontier) ==
  IF frontier = {} THEN graph
  ELSE LET up == [j \in frontier |-> UpstreamIn(cf, index, j)]
           more == graph @@ up
       IN  Closure(cf, index, more, (UNION {up[j] : j \in frontier}) \ DOMAIN more)

\* the jobs the engine needs to make the files of rule all (lines 248-250),
\* each with the jobs it waits for
NeededJobs(cf, files) ==
  LET index == OutputIndex(cf)
  IN  Closure(cf, index, <<>>, UNION {ProducersIn(index, f) : f \in Range(files)})

-----------------------------------------------------------------------------
(* Errors that abort the invocation *)

NoError == [kind |-> "none"]
ConfigError(option, allowed) == [kind |-> "ConfigError", option |-> option, allowed |-> allowed]
KeyError(key) == [kind |-> "KeyError", key |-> key]
MissingInputError(files) == [kind |-> "MissingInput", files |-> files]

-----------------------------------------------------------------------------
(* Load phase: the statements of the workflow file, top to bottom *)

MapperAllowed == {"star", "hisat2"}

\* validate_config (scripts/validate_input.py, called at line 32): the
\* mapping tool must be one of the supported mappers
validate_config(cf) ==
  IF cf.mapper \notin MapperAllowed
  THEN ConfigError("mapping->mapper", MapperAllowed)
  ELSE NoError

\* lines 31-32
ValidateConfig ==
  /\ pc = "validate"
  /\ IF validate_config(config) # NoError
     THEN /\ pc' = "error"
          /\ err' = validate_config(config)
          /\ exit' = 1
     ELSE /\ pc' = "samples"
          /\ UNCHANGED <<err, exit>>
  /\ UNCHANGED <<config, SAMPLES, BIGWIG_OUTPUT, COLLATED, targets, OUTPUT_FILES,
                 dag, st, fs, fs0, expected_files, reported>>

\* lines 102-114
LoadSampleSheet ==
  /\ pc = "samples"
  /\ SAMPLES' = SampleNames(config)
  /\ pc' = "bigwig"
  /\ UNCHANGED <<config, err, BIGWIG_OUTPUT, COLLATED, targets, OUTPUT_FILES,
                 dag, st, fs, fs0, expected_files, reported, exit>>

CoverageToolAllowed == {"bamCoverage", "megadepth"}

\* a check that lets every coverage tool through
CoverageToolNeverRejected(tool) == FALSE

\* the test that reaches the else branch of lines 119-127
CoverageToolRejected(tool) == tool # "bamCoverage" /\ tool # "megadepth"

\* a bigwig list that leaves out the combined track
BigwigOutputStranded(tool, m, samples) ==
  IF tool = "bamCoverage"
  THEN Map(samples, LAMBDA s : BigwigForward(m, s)) \o Map(samples, LAMBDA s : BigwigReverse(m, s))
  ELSE IF tool = "megadepth"
  THEN Map(samples, LAMBDA s : BigwigMegadepth(m, s))
  ELSE <<>>

\* lines 118-125: expand() of the bigwig patterns over the samples
BigwigOutput(tool, m, samples) ==
  IF tool = "bamCoverage"
  THEN LET fw == Map(samples, LAMBDA s : BigwigForward(m, s))
           rv == Map(samples, LAMBDA s : BigwigReverse(m, s))
           both == Map(samples, LAMBDA s : BigwigBoth(m, s))
       IN  fw \o rv \o both
  ELSE IF tool = "megadepth"
  THEN Map(samples, LAMBDA s : BigwigMegadepth(m, s))
  ELSE <<>>

\* lines 116-127
BuildBigwigOutput ==
  /\ pc = "bigwig"
  /\ BIGWIG_OUTPUT' = BigwigOutput(config.covtool, <<config.mapper>>, SAMPLES)
  /\ IF CoverageToolRejected(config.covtool)
     THEN /\ pc' = "error"
          /\ err' = ConfigError("coverage->tool", {"megadepth", "bamCoverage"})
          /\ exit' = 1
     ELSE /\ pc' = "collated"
          /\ UNCHANGED <<err, exit>>
  /\ UNCHANGED <<config, SAMPLES, COLLATED, targets, OUTPUT_FILES,
                 dag, st, fs, fs0, expected_files, reported>>

\* a test that takes the dictionary for non-empty
HasAnalysesAlways(analyses) == TRUE

\* line 133: the truth value of the DEanalyses dictionary
HasAnalyses(analyses) == analyses # <<>>

\* lines 129-142: report files of every analysis plus the collated table
CollatedOutput(dir, kind, level, analyses) ==
  IF HasAnalyses(analyses)
  THEN Map(analyses, LAMBDA a : ReportHtml(dir, a, kind)) \o <<CollatedTsv(dir, level)>>
  ELSE <<>>

\* lines 129-142
BuildCollatedOutput ==
  /\ pc = "collated"
  /\ COLLATED' =
       [mapper |-> CollatedOutput(<<config.mapper>>, <<>>, <<>>, config.DEanalyses),
        transcripts |-> CollatedOutput(Salmon, KindTranscripts, <<".", "transcripts">>, config.DEanalyses),
        genes |-> CollatedOutput(Salmon, KindGenes, <<".", "genes">>, config.DEanalyses)]
  /\ pc' = "targets"
  /\ UNCHANGED <<config, err, SAMPLES, BIGWIG_OUTPUT, targets, OUTPUT_FILES,
                 dag, st, fs, fs0, expected_files, reported, exit>>

\* a help target that asks for the default report
HelpFilesReport == <<MultiqcReport>>

\* targets['help']['files'] (line 148)
HelpFiles == <<>>

\* lines 144-236: name -> targets[name]['files']
TargetCatalog(m, samples, bigwig, collated) ==
  ("final-report" :>
      <<InputAnnotationStats, MultiqcReport,
        SalmonCounts[1], SalmonCounts[2], SalmonCounts[3], SalmonCounts[4],
        CountsTsv(m), NormCounts(m), SizeFactors(m)>>
        \o bigwig \o collated.mapper \o collated.transcripts \o collated.genes)
  @@
  [ help |-> HelpFiles,
    deseq_report_star |-> collated.mapper,
    deseq_report_hisat2 |-> collated.mapper,
    deseq_report_salmon_transcripts |-> collated.transcripts,
    deseq_report_salmon_genes |-> collated.genes,
    star_map |-> Map(samples, LAMBDA s : Bam(<<"star">>, s)),
    star_counts |-> <<CountsTsv(<<"star">>)>>,
    hisat2_map |-> Map(samples, LAMBDA s : Bam(<<"hisat2">>, s)),
    hisat2_counts |-> <<CountsTsv(<<"hisat2">>)>>,
    genome_coverage |-> bigwig,
    salmon_index |-> <<SalmonIndexFile(<<"pos", ".", "bin">>)>>,
    salmon_quant |->
      Map(samples, LAMBDA s : QuantSf(s)) \o Map(samples, LAMBDA s : QuantGenesSf(s)),
    salmon_counts |-> SalmonCounts,
    multiqc |-> <<MultiqcReport>> ]

\* lines 144-236
BuildTargets ==
  /\ pc = "targets"
  /\ targets' = TargetCatalog(<<config.mapper>>, SAMPLES, BIGWIG_OUTPUT, COLLATED)
  /\ pc' = "select"
  /\ UNCHANGED <<config, err, SAMPLES, BIGWIG_OUTPUT, COLLATED, OUTPUT_FILES,
                 dag, st, fs, fs0, expected_files, reported, exit>>

\* line 239: config['execution']['target'] or ['final-report']
selected_targets(cf) == IF cf.target = <<>> THEN <<"final-report">> ELSE cf.target

\* a lookup that takes an unknown name for a group without files
TargetFilesLenient(catalog, name) ==
  [ok |-> TRUE, files |-> IF name \in DOMAIN catalog THEN catalog[name] ELSE <<>>]

\* line 244, targets[name]['files']: a name that is no key of the catalog
\* raises KeyError
TargetFiles(catalog, name) ==
  IF name \in DOMAIN catalog
  THEN [ok |-> TRUE, files |-> catalog[name]]
  ELSE [ok |-> FALSE, files |-> <<>>]

\* lines 238-246
SelectTargets ==
  /\ pc = "select"
  /\ LET selected == selected_targets(config)
         found == Map(selected, LAMBDA name : TargetFiles(targets, name))
         unknown == {i \in DOMAIN found : ~found[i].ok}
     IN  IF unknown # {}
         THEN /\ pc' = "error"
              /\ err' = KeyError(selected[CHOOSE i \in unknown : \A k \in unknown : i <= k])
              /\ exit' = 1
              /\ UNCHANGED OUTPUT_FILES
         ELSE /\ OUTPUT_FILES' =
                   Append(Flatten(Map(found, LAMBDA t : t.files)), AnnotationsTgz)
              /\ pc' = "rules"
              /\ UNCHANGED <<err, exit>>
  /\ UNCHANGED <<config, SAMPLES, BIGWIG_OUTPUT, COLLATED, targets,
                 dag, st, fs, fs0, expected_files, reported>>

-----------------------------------------------------------------------------
(* The file system *)

Exists(f) == f \in DOMAIN fs
MTime(f) == IF f \in DOMAIN fs THEN fs[f] ELSE 0

\* files no rule produces: annotation, sample sheet, logo and read files
LeafFiles(cf) ==
  AnnotationInputs \cup {SAMPLE_SHEET_FILE, LOGO}
    \cup UNION {Range(ReadsFiles(cf, s)) : s \in Range(SampleNames(cf))}

\* modification times: inputs, outputs of an earlier run, an input edited
\* after that run, and the time at which this run writes
LeafTime == 1
PriorTime == LeafTime + 1
TouchedTime == PriorTime + 1
RunTime == TouchedTime + 1

\* the catalog as the load phase computes it for cf
CatalogOf(cf) ==
  LET m == <<cf.mapper>>
      S == SampleNames(cf)
      col == [mapper |-> CollatedOutput(m, <<>>, <<>>, cf.DEanalyses),
              transcripts |-> CollatedOutput(Salmon, KindTranscripts, <<".", "transcripts">>, cf.DEanalyses),
              genes |-> CollatedOutput(Salmon, KindGenes, <<".", "genes">>, cf.DEanalyses)]
  IN  TargetCatalog(m, S, BigwigOutput(cf.covtool, m, S), col)

\* what an earlier invocation left behind
PriorFiles(cf) ==
  LET cat == CatalogOf(cf)
      outs(g) == UNION {JobOutputs(cf, j) : j \in DOMAIN g}
  IN  CASE cf.prior = "fresh" -> {}
        [] cf.prior = "partial" ->
             outs(NeededJobs(cf, Append(cat["salmon_index"], AnnotationsTgz)))
        [] OTHER ->
             outs(NeededJobs(cf, Append(cat["final-report"], AnnotationsTgz)))

InitialFs(cf) ==
  LET leaf == LeafFiles(cf)
      prior == PriorFiles(cf) \ leaf
  IN  [f \in leaf \cup prior |->
         IF f \in prior THEN PriorTime
         ELSE IF cf.prior = "touched" /\ f = SAMPLE_SHEET_FILE THEN TouchedTime
         ELSE LeafTime]

-----------------------------------------------------------------------------
(* Engine: the jobs for rule all *)

\* lines 248-250 and the rule declarations: the engine resolves the files of
\* rule all to jobs; a required file that no rule produces must exist
BuildDag ==
  /\ pc = "rules"
  /\ LET made == UNION {e.outputs : e \in OutputIndex(config)}
         missing == {f \in Range(OUTPUT_FILES) : f \notin made /\ ~Exists(f)}
     IN  IF missing # {}
         THEN /\ pc' = "error"
              /\ err' = MissingInputError(missing)
              /\ exit' = 1
              /\ UNCHANGED <<dag, st>>
         ELSE /\ dag' = NeededJobs(config, OUTPUT_FILES)
              /\ st' = [j \in DOMAIN dag' |-> "pending"]
              /\ pc' = "onstart"
              /\ UNCHANGED <<err, exit>>
  /\ expected_files' = <<>>
  /\ UNCHANGED <<config, SAMPLES, BIGWIG_OUTPUT, COLLATED, targets, OUTPUT_FILES,
                 fs, fs0, reported>>

\* lines 288-292: the files of OUTPUT_FILES that exist, with their mtime
Snapshot(files) ==
  [f \in {g \in Range(files) : Exists(g)} |-> MTime(f)]

\* onstart (lines 285-292)
OnStart ==
  /\ pc = "onstart"
  /\ expected_files' = IF OUTPUT_FILES # <<>> THEN Snapshot(OUTPUT_FILES) ELSE expected_files
  /\ pc' = "run"
  /\ UNCHANGED <<config, err, SAMPLES, BIGWIG_OUTPUT, COLLATED, targets, OUTPUT_FILES,
                 dag, st, fs, fs0, reported, exit>>

DagJobs == DOMAIN dag
Running == {j \in DagJobs : st[j] = "running"}
Failed == {j \in DagJobs : st[j] = "failed"}
Finished(j) == st[j] \in {"succeeded", "skipped"}

Waits(j) == dag[j]

\* every job of the dag that depends, directly or transitively, on j
RECURSIVE Downstream(_)
Downstream(js) ==
  LET more == js \cup {k \in DagJobs : Waits(k) \cap js # {}}
  IN  IF more = js THEN js ELSE Downstream(more)

\* a job must run if an output is missing or older than an input
Stale(j) ==
  \E o \in JobOutputs(config, j) :
    \/ ~Exists(o)
    \/ \E i \in JobInputs(config, j) : MTime(o) < MTime(i)

\* without --keep-going the engine starts no new job after a failure
MayStart == config.keepgoing \/ Failed = {}

Ready(j) ==
  /\ st[j] = "pending"
  /\ \A u \in Waits(j) : Finished(u)

\* a ready job is skipped when it is up to date, and started otherwise
StartJob(j) ==
  /\ pc = "run"
  /\ Ready(j)
  /\ MayStart
  /\ IF Stale(j)
     THEN /\ Cardinality(Running) < MaxJobs
          /\ st' = [st EXCEPT ![j] = "running"]
     ELSE st' = [st EXCEPT ![j] = "skipped"]
  /\ UNCHANGED <<config, pc, err, SAMPLES, BIGWIG_OUTPUT, COLLATED, targets,
                 OUTPUT_FILES, dag, fs, fs0, expected_files, reported, exit>>

\* the command of a running job returns 0 and its outputs exist
FinishJob(j) ==
  /\ pc = "run"
  /\ st[j] = "running"
  /\ st' = [st EXCEPT ![j] = "succeeded"]
  /\ fs' = [f \in JobOutputs(config, j) |-> RunTime] @@ fs
  /\ UNCHANGED <<config, pc, err, SAMPLES, BIGWIG_OUTPUT, COLLATED, targets,
                 OUTPUT_FILES, dag, fs0, expected_files, reported, exit>>

\* the command of a running job fails: the jobs downstream of it never run
FailJob(j) ==
  /\ pc = "run"
  /\ st[j] = "running"
  /\ st' = [k \in DagJobs |->
              IF k = j THEN "failed"
              ELSE IF k \in Downstream({j}) THEN "cancelled"
              ELSE st[k]]
  /\ UNCHANGED <<config, pc, err, SAMPLES, BIGWIG_OUTPUT, COLLATED, targets,
                 OUTPUT_FILES, dag, fs, fs0, expected_files, reported, exit>>

\* a handler that is called at the end of every run
OnSuccessCalledAlways(failed) == TRUE

\* the handler of lines 294-305 is registered as onsuccess: the engine calls
\* it only when no job failed
OnSuccessCalled(failed) == failed = {}

\* nothing is running and nothing can be started: the run is over
EndRun ==
  /\ pc = "run"
  /\ Running = {}
  /\ ~ \E j \in DagJobs : Ready(j) /\ MayStart
  /\ IF OnSuccessCalled(Failed)
     THEN /\ pc' = "onsuccess"
          /\ UNCHANGED exit
     ELSE /\ pc' = "done"
          /\ exit' = 1
  /\ UNCHANGED <<config, err, SAMPLES, BIGWIG_OUTPUT, COLLATED, targets,
                 OUTPUT_FILES, dag, st, fs, fs0, expected_files, reported>>

\* a test that only notices new files, not modified ones
GeneratedOnlyNew(name) == name \notin DOMAIN expected_files

\* line 300: the test that puts a file on the list of generated files
Generated(name) ==
  name \notin DOMAIN expected_files \/ MTime(name) # expected_files[name]

\* onsuccess (lines 294-305)
OnSuccess ==
  /\ pc = "onsuccess"
  /\ reported' = IF OUTPUT_FILES # <<>>
                 THEN SelectSeq(OUTPUT_FILES, Generated)
                 ELSE reported
  /\ pc' = "done"
  /\ exit' = 0
  /\ UNCHANGED <<config, err, SAMPLES, BIGWIG_OUTPUT, COLLATED, targets, OUTPUT_FILES,
                 dag, st, fs, fs0, expected_files>>

-----------------------------------------------------------------------------
(* Configurations *)

SampleA == [name |-> <<"A">>, reads |-> <<"A_1", ".", "fq">>, reads2 |-> <<"A_2", ".", "fq">>]
SampleB == [name |-> <<"B">>, reads |-> <<"B", ".", "fq">>, reads2 |-> <<>>]
SampleAF == [name |-> <<"A", ".", "forward">>, reads |-> <<"AF_1", ".", "fq">>,
             reads2 |-> <<"AF_2", ".", "fq">>]
SampleUniverse == {SampleA, SampleB, SampleAF}

AnalysisUniverse == {<<"an1">>, <<"collated">>}

RequestNames == {"help", "final-report", "multiqc", "genome_coverage", "bogus"}

\* sequences over S of length at most n
SeqsUpTo(S, n) == UNION {[1..k -> S] : k \in 0..n}

\* sample sheets: every sample has a name of its own
Sheets(n) == {s \in SeqsUpTo(SampleUniverse, n) : NoDuplicates(Map(s, LAMBDA r : r.name))}

\* the keys of the DEanalyses dictionary, in order
AnalysisLists(n) == {a \in SeqsUpTo(AnalysisUniverse, n) : NoDuplicates(a)}

LoadConfigs ==
  [mapper : {"star", "hisat2", "bowtie"},
   covtool : {"bamCoverage", "megadepth", "bedtools"},
   sheet : Sheets(MaxSamples),
   DEanalyses : AnalysisLists(MaxAnalyses),
   target : SeqsUpTo(RequestNames, MaxTargets),
   prior : {"fresh"},
   keepgoing : {TRUE}]

RunConfigs ==
  [mapper : {"star"},
   covtool : {"megadepth"},
   sheet : {<<SampleB>>},
   DEanalyses : {<<>>},
   target : {<<"help">>, <<"genome_coverage">>, <<"multiqc", "final-report">>},
   prior : {"fresh", "partial", "complete", "touched"},
   keepgoing : BOOLEAN]

InitWith(configs) ==
  /\ config \in configs
  /\ pc = "validate"
  /\ err = NoError
  /\ SAMPLES = Undefined
  /\ BIGWIG_OUTPUT = Undefined
  /\ COLLATED = Undefined
  /\ targets = Undefined
  /\ OUTPUT_FILES = Undefined
  /\ dag = <<>>
  /\ st = <<>>
  /\ fs = InitialFs(config)
  /\ fs0 = fs
  /\ expected_files = Undefined
  /\ reported = <<>>
  /\ exit = -1

Load ==
  \/ ValidateConfig
  \/ LoadSampleSheet
  \/ BuildBigwigOutput
  \/ BuildCollatedOutput
  \/ BuildTargets
  \/ SelectTargets
  \/ BuildDag
  \/ OnStart

Run ==
  \/ \E j \in DagJobs : StartJob(j)
  \/ \E j \in DagJobs : FinishJob(j)
  \/ \E j \in DagJobs : FailJob(j)
  \/ EndRun
  \/ OnSuccess

\* the workflow file and the start of the engine, up to the first job, over
\* a wide range of configurations
LoadInit == InitWith(LoadConfigs)
LoadSpec == LoadInit /\ [][Load]_vars

\* a whole invocation
Init == InitWith(RunConfigs)
Next == Load \/ Run
Spec == Init /\ [][Next]_vars


-----------------------------------------------------------------------------
(* Properties *)

\* the keys of the target catalog (lines 144-236)
TargetNames ==
  {"help", "final-report", "deseq_report_star", "deseq_report_hisat2",
   "deseq_report_salmon_transcripts", "deseq_report_salmon_genes", "star_map",
   "star_counts", "hisat2_map", "hisat2_counts", "genome_coverage", "salmon_index",
   "salmon_quant", "salmon_counts", "multiqc"}

Requested == selected_targets(config)
HasUnknownTarget == \E i \in DOMAIN Requested : Requested[i] \notin TargetNames
ValidBranches == config.mapper \in MapperAllowed /\ config.covtool \in CoverageToolAllowed

\* positions at which the engine has been handed the workflow
EngineStarted == pc \in {"onstart", "run", "onsuccess", "done"}

\* C1: whatever target groups are requested, OUTPUT_FILES contains no path
\* more than once and annotations.tgz exactly once.
C1_OutputFilesDeduplicated ==
  OUTPUT_FILES # Undefined =>
    /\ NoDuplicates(OUTPUT_FILES)
    /\ Count(OUTPUT_FILES, AnnotationsTgz) = 1

\* C2: when a requested target name is no key of the catalog, the invocation
\* ends with the lookup error for that name; OUTPUT_FILES is never assigned,
\* no job is resolved or run, no snapshot is taken and no file is touched,
\* whatever the other requested names are.
C2_UnknownTargetAborts ==
  HasUnknownTarget =>
    /\ OUTPUT_FILES = Undefined
    /\ dag = <<>> /\ st = <<>>
    /\ expected_files = Undefined
    /\ fs = fs0
    /\ ~EngineStarted /\ pc # "rules"
    /\ (pc = "error" /\ targets # Undefined =>
          /\ err.kind = "KeyError"
          /\ err.key \in Range(Requested) \ TargetNames
          /\ exit = 1)

\* C2 witness: a request naming a catalog group and an unknown group has been
\* rejected at the lookup.
C2_Witness ==
  /\ pc = "error"
  /\ err.kind = "KeyError"
  /\ "final-report" \in Range(Requested)
  /\ targets # Undefined

\* C3: a mapping tool or coverage tool outside its enumeration is rejected
\* with a configuration error naming the option and the allowed values, and
\* in no state does a target catalog, a file list or a job exist for it.
C3_InvalidBranchRejectedEarly ==
  ~ValidBranches =>
    /\ pc \in {"validate", "samples", "bigwig", "error"}
    /\ targets = Undefined
    /\ OUTPUT_FILES = Undefined
    /\ dag = <<>>
    /\ (pc = "error" =>
          /\ err.kind = "ConfigError"
          /\ exit = 1
          /\ IF config.mapper \notin MapperAllowed
             THEN err.option = "mapping->mapper" /\ err.allowed = MapperAllowed
             ELSE err.option = "coverage->tool" /\ err.allowed = CoverageToolAllowed)
    /\ (pc = "bigwig" => config.mapper \in MapperAllowed)

\* C3 witness: an unsupported coverage tool (with a supported mapper) has been
\* rejected by the check of lines 119-127.
C3_Witness ==
  /\ pc = "error"
  /\ config.mapper \in MapperAllowed
  /\ config.covtool \notin CoverageToolAllowed
  /\ err.kind = "ConfigError"
  /\ SAMPLES # Undefined
  /\ Len(SAMPLES) > 0


\* the modification time a file had when the invocation began (0: none)
MTime0(f) == IF f \in DOMAIN fs0 THEN fs0[f] ELSE 0

\* the file is new or its modification time differs from the one it had
ChangedSinceStart(f) == f \notin DOMAIN fs0 \/ MTime(f) # MTime0(f)

\* C4: after a fully successful run the reported list is exactly the
\* sequence of OUTPUT_FILES entries that did not exist before the run or whose
\* modification time differs now, in OUTPUT_FILES order; and the snapshot
\* holds exactly the OUTPUT_FILES entries that existed before the run, with
\* the modification time they had then.
C4_ReportIsChangedFiles ==
  /\ (pc \in {"run", "onsuccess", "done"} =>
        /\ DOMAIN expected_files = Range(OUTPUT_FILES) \cap DOMAIN fs0
        /\ \A f \in DOMAIN expected_files : expected_files[f] = fs0[f])
  /\ (pc = "done" /\ exit = 0 =>
        /\ Failed = {}
        /\ \A j \in DagJobs : Finished(j)
        /\ reported = SelectSeq(OUTPUT_FILES, ChangedSinceStart)
        /\ \A f \in Range(OUTPUT_FILES) :
             f \in DOMAIN fs0 /\ MTime(f) = MTime0(f) => f \notin Range(reported))
  /\ (pc # "done" => reported = <<>>)

\* C4 witness: a successful run that reports a file modified by the run and
\* does not report a required file the run left as it was.
C4_Witness ==
  /\ pc = "done" /\ exit = 0
  /\ \E f \in Range(reported) : f \in DOMAIN fs0
  /\ \E f \in Range(OUTPUT_FILES) : f \in DOMAIN fs0 /\ f \notin Range(reported)
  /\ \E j \in DagJobs : st[j] = "skipped"
  /\ \E j \in DagJobs : st[j] = "succeeded"

\* the jobs of the dag that declare f as an output
DagProducers(f) == {j \in DagJobs : f \in JobOutputs(config, j)}

\* C5 (as claimed): at the end of a run in which a job failed, every required
\* file that a branch unrelated to the failed job produced or modified during
\* the run is reported.
C5_FailedRunStillReports ==
  pc = "done" /\ Failed # {} =>
    \A f \in Range(OUTPUT_FILES) :
      ChangedSinceStart(f) /\ Exists(f) /\ DagProducers(f) \cap Downstream(Failed) = {}
        => f \in Range(reported)

\* C5 (amended): in a run in which a job failed nothing is reported: the
\* onsuccess handler is not called and the run ends with exit status 1.
C5_FailedRunReportsNothing ==
  Failed # {} =>
    /\ reported = <<>>
    /\ pc \in {"run", "done"}
    /\ (pc = "done" => exit = 1)

\* C5 witness: a run has ended after a failure, and a required file was
\* produced during the run by a job that does not depend on the failed one.
C5_Witness ==
  /\ pc = "done" /\ Failed # {}
  /\ \E f \in Range(OUTPUT_FILES) :
       /\ Exists(f) /\ ChangedSinceStart(f)
       /\ DagProducers(f) \cap Downstream(Failed) = {}


\* the rules that make up a mapper branch (lines 355-436)
MapperRules(m) ==
  IF m = "star" THEN {"star_index", "star_map"} ELSE {"hisat2_index", "hisat2_map"}

\* the jobs of the dag that belong to the selected mapper branch, and the
\* jobs whose inputs depend on their files
MapperJobs == {j \in DagJobs : j.rule \in MapperRules(config.mapper)}
DependsOnMapper == Downstream(MapperJobs) \ MapperJobs

\* the jobs of the dag that belong to the selected coverage branch
CoverageJobs == {j \in DagJobs : j.rule \in {"coverage_megadepth", "coverage_bamCoverage"}}

\* under configuration cf the file f is made from files of cf's mapper branch
ProducedFromMapper(cf, f) ==
  \E j \in DOMAIN NeededJobs(cf, <<f>>) : j.rule \in MapperRules(cf.mapper)

\* C7: with valid branch selections, every job whose inputs depend on the
\* files of the selected mapper (coverage tool) writes each output under a
\* path that has the selected name as a segment, and no such output is also
\* made from the other mapper's files when only the mapper selection differs.
C7_BranchOutputsSeparated ==
  pc = "onstart" /\ ValidBranches =>
    /\ \A j \in MapperJobs \cup DependsOnMapper : \A o \in JobOutputs(config, j) :
         /\ j \in DependsOnMapper => HasSegment(o, <<config.mapper>>)
         /\ \A m2 \in MapperAllowed \ {config.mapper} :
              ~ProducedFromMapper([config EXCEPT !.mapper = m2], o)
    /\ \A j \in Downstream(CoverageJobs) : \A o \in JobOutputs(config, j) :
         HasSegment(o, <<config.covtool>>)

\* only the name 'help' is requested
HelpOnly == config.target # <<>> /\ Range(config.target) = {"help"}

\* C8: when only 'help' is requested, OUTPUT_FILES is the one-element list
\* of annotations.tgz, loading succeeds, and the jobs resolved for rule all
\* are the single job that makes annotations.tgz: none is bound to a sample.
C8_HelpOnlyNeedsNoSampleJob ==
  HelpOnly =>
    /\ (targets # Undefined => targets["help"] = <<>>)
    /\ (OUTPUT_FILES # Undefined => OUTPUT_FILES = <<AnnotationsTgz>>)
    /\ (ValidBranches => pc # "error")
    /\ \A j \in DagJobs : j.rule \notin PerSampleRules /\ j.wc = <<>>
    /\ (pc = "onstart" => DagJobs = {Job("record_annotation_files", <<>>)})

\* C8 witness: the dag for a help-only request over two samples is built.
C8_Witness ==
  /\ HelpOnly
  /\ pc = "onstart"
  /\ Len(SAMPLES) = 2
  /\ DagJobs # {}

\* the bigwig paths of one sample under bamCoverage
StrandedTracks(m, s) == {BigwigForward(m, s), BigwigReverse(m, s), BigwigBoth(m, s)}

AnalysisGroups ==
  {"deseq_report_star", "deseq_report_hisat2", "deseq_report_salmon_transcripts",
   "deseq_report_salmon_genes"}

\* C10: with no analysis configured every analysis group of the catalog is
\* empty, no path of final-report lies under the report directory, and a
\* request for final-report is resolved without a lookup or configuration
\* error.
C10_NoAnalysesNoReports ==
  config.DEanalyses = <<>> =>
    /\ (targets # Undefined =>
          /\ COLLATED.mapper = <<>> /\ COLLATED.transcripts = <<>> /\ COLLATED.genes = <<>>
          /\ \A g \in AnalysisGroups : targets[g] = <<>>
          /\ \A f \in Range(targets["final-report"]) : ~HasSegment(f, <<"report">>))
    /\ (ValidBranches /\ Range(Requested) = {"final-report"} =>
          /\ err = NoError
          /\ pc # "error"
          /\ (OUTPUT_FILES # Undefined =>
                \A f \in Range(OUTPUT_FILES) : ~HasSegment(f, <<"report">>)))

\* C10 witness: final-report requested with no analysis, its jobs resolved.
C10_Witness ==
  /\ config.DEanalyses = <<>>
  /\ Requested = <<"final-report">>
  /\ Len(SAMPLES) > 0
  /\ pc = "onstart"
  /\ DagJobs # {}


\* the jobs of cf that declare f as an output
Claimants(cf, f) == {j \in Jobs(cf) : f \in JobOutputs(cf, j)}

\* C11: with valid branch selections and uniquely named samples, every
\* output path of the jobs resolved for rule all is declared by exactly one
\* job instance of the workflow; in particular no report1 instance declares
\* the output of deseq_collate_report1.
C11_OneProducerPerPath ==
  pc = "onstart" /\ ValidBranches =>
    /\ \A j \in DagJobs : \A o \in JobOutputs(config, j) : Claimants(config, o) = {j}
    /\ \A a \in Range(config.DEanalyses) :
         JobOutputs(config, Job("report1", a))
           \cap JobOutputs(config, Job("deseq_collate_report1", <<>>)) = {}


\* the per-sample rules the default target needs under the selected
\* branches, grouped by step: exactly one rule of each group applies
PerSampleSteps(cf) ==
  {{"trim_qc_reads_pe", "trim_qc_reads_se"},
   {IF cf.mapper = "star" THEN "star_map" ELSE "hisat2_map"},
   {"index_bam"},
   {IF cf.covtool = "bamCoverage" THEN "coverage_bamCoverage" ELSE "coverage_megadepth"},
   {"salmon_quant"},
   {"count_reads"}}

\* the jobs of the dag for sample s whose rule belongs to the step
StepJobs(step, s) == {j \in DagJobs : j.rule \in step /\ j.wc = s}

\* every step has exactly one job for every sample
OncePerSample ==
  \A step \in PerSampleSteps(config) : \A s \in Range(SAMPLES) :
    Cardinality(StepJobs(step, s)) = 1

\* the jobs of per-sample rules for different samples share no output path
DistinctAcrossSamples ==
  \A j, k \in DagJobs :
    j.rule \in PerSampleRules /\ k.rule \in PerSampleRules /\ j.wc # k.wc =>
      JobOutputs(config, j) \cap JobOutputs(config, k) = {}

\* C12: for a non-empty sheet of uniquely named samples and valid branch
\* selections, the jobs resolved for the default target hold every per-sample
\* step exactly once per sample, and jobs of different samples share no
\* output path.
C12_PerSampleJobsDistinct ==
  pc = "onstart" /\ ValidBranches /\ SAMPLES # <<>> /\ Requested = <<"final-report">> =>
    OncePerSample /\ DistinctAcrossSamples


-----------------------------------------------------------------------------
(* Every group of the catalog, requested on its own, under every valid      *)
(* branch selection                                                         *)

CatalogConfigs ==
  [mapper : MapperAllowed,
   covtool : CoverageToolAllowed,
   sheet : Sheets(MaxSamples),
   DEanalyses : AnalysisLists(MaxAnalyses),
   target : {<<name>> : name \in TargetNames},
   prior : {"fresh"},
   keepgoing : {TRUE}]

CatalogInit == InitWith(CatalogConfigs)
CatalogSpec == CatalogInit /\ [][Load]_vars

\* the mapper and the coverage tool that were not selected
OtherMappers == MapperAllowed \ {config.mapper}
OtherCoverageRules ==
  {"coverage_megadepth", "coverage_bamCoverage"}
    \ {IF config.covtool = "bamCoverage" THEN "coverage_bamCoverage" ELSE "coverage_megadepth"}

\* C13: for valid branch selections and any requested catalog group, the
\* jobs resolved for rule all hold no index or map job of the mapper that was
\* not selected and no coverage job of the coverage tool that was not
\* selected.
C13_NoJobOfUnselectedBranch ==
  pc = "onstart" =>
    \A j \in DagJobs :
      /\ \A m2 \in OtherMappers : j.rule \notin MapperRules(m2)
      /\ j.rule \notin OtherCoverageRules


\* the jobs of the dag that js wait for, directly or transitively, with js
RECURSIVE UpstreamClosure(_)
UpstreamClosure(js) ==
  LET more == js \cup UNION {Waits(j) : j \in js}
  IN  IF more = js THEN js ELSE UpstreamClosure(more)

\* no job waits, directly or transitively, for itself
Acyclic == \A j \in DagJobs : j \notin UpstreamClosure(Waits(j))

\* C14: for valid branch selections, any sheet of single- and paired-end
\* samples and any analyses, the dependency relation of the resolved jobs
\* (a job waits for the jobs that declare one of its inputs as an output) has
\* no cycle.
C14_DependenciesAcyclic ==
  pc = "onstart" /\ ValidBranches => Acyclic


\* the job has been started by the engine
Started(j) == st[j] \in {"running", "succeeded", "failed"}

\* the jobs of the dag with the given rule for sample s
RuleJobs(rules, s) == {j \in DagJobs : j.rule \in rules /\ j.wc = s}

\* C15: in every state of a run, a job that has been started has all its
\* upstream jobs (the jobs declaring one of its inputs as an output)
\* succeeded or skipped; in particular a star_map job has star_index and the
\* trimming job of its sample behind it, and a coverage or count_reads job
\* has the map and index_bam jobs of its sample behind it.
C15_StartedAfterUpstream ==
  \A j \in DagJobs : Started(j) =>
    /\ \A u \in Upstream(config, j) : u \in DagJobs /\ Finished(u)
    /\ j.rule = "star_map" =>
         /\ \E u \in RuleJobs({"star_index"}, <<>>) : Finished(u)
         /\ \E u \in RuleJobs({"trim_qc_reads_pe", "trim_qc_reads_se"}, j.wc) : Finished(u)
    /\ j.rule \in {"coverage_megadepth", "coverage_bamCoverage", "count_reads"} =>
         /\ \E u \in RuleJobs({"star_map", "hisat2_map"}, j.wc) : Finished(u)
         /\ \E u \in RuleJobs({"index_bam"}, j.wc) : Finished(u)

\* C15 witness: two jobs run at the same time, one of them a coverage or
\* count_reads job whose map job succeeded in this run, while another job is
\* still pending.
C15_Witness ==
  /\ pc = "run"
  /\ Cardinality(Running) = 2
  /\ \E j \in Running :
       /\ j.rule \in {"coverage_megadepth", "count_reads"}
       /\ st[Job("star_map", j.wc)] = "succeeded"
  /\ \E j \in DagJobs : st[j] = "pending"


-----------------------------------------------------------------------------
(* Unusual sample sheets: a line without reads files, a name that occurs    *)
(* twice, a name that starts like a file name suffix of a rule              *)

SampleNoReads == [name |-> <<"C">>, reads |-> <<>>, reads2 |-> <<>>]
SampleFA == [name |-> <<"forward", ".", "A">>, reads |-> <<"FA", ".", "fq">>, reads2 |-> <<>>]

SheetConfigs ==
  [mapper : {"star"},
   covtool : CoverageToolAllowed,
   sheet : SeqsUpTo({SampleA, SampleB, SampleNoReads, SampleFA}, MaxSamples),
   DEanalyses : {<<>>},
   target : {<<>>, <<"salmon_quant">>, <<"star_map">>},
   prior : {"fresh"},
   keepgoing : {TRUE}]

SheetInit == InitWith(SheetConfigs)
SheetSpec == SheetInit /\ [][Load]_vars

\* the number of populated reads fields lookup() returns for the name
PopulatedReads(cf, sample) ==
  LET files == Lookup(cf, sample, <<"reads", "reads2">>)
  IN  Cardinality({i \in DOMAIN files : files[i] # <<>>})

\* C16: endedness follows the number of populated reads fields (one:
\* single-end, two: paired-end), and a sheet with a sample of any other
\* count is rejected: when the rules are resolved no sample has an undefined
\* endedness or an undefined list of read inputs.
C16_InvalidReadCountRejected ==
  SAMPLES # Undefined =>
    \A s \in Range(SAMPLES) :
      LET n == PopulatedReads(config, s)
      IN  /\ n = 1 => isSingleEnd(config, s) = "True"
          /\ n = 2 => isSingleEnd(config, s) = "False"
          /\ pc \in {"rules", "onstart"} =>
               /\ n \in {1, 2}
               /\ isSingleEnd(config, s) # "None"
               /\ map_input(config, s) # <<>>
               /\ trim_reads_input(config, s) # <<>>


\* "name.log"
LogName(name) == name \o <<".", "log">>

\* the log: section of the rule of a job (no entry: the rule declares none)
JobLogs(cf, j) ==
  LET m == <<cf.mapper>>
      w == j.wc
  IN  CASE j.rule = "check_annotation_files" ->
             {Join2(LOG_DIR, LogName(<<"check_annotation_files">>))}
        [] j.rule = "record_annotation_files" ->
             {Join2(LOG_DIR, LogName(<<"record_annotation_files">>))}
        [] j.rule = "translate_sample_sheet_for_report" -> {}
        [] j.rule \in {"trim_qc_reads_pe", "trim_qc_reads_se"} ->
             {Join2(LOG_DIR, LogName(<<"trim_reads", ".">> \o w))}
        [] j.rule = "star_index" -> {Join2(LOG_DIR, LogName(<<"star_index">>))}
        [] j.rule = "hisat2_index" -> {Join2(LOG_DIR, LogName(<<"hisat2_index">>))}
        [] j.rule = "star_map" ->
             {Join3(LOG_DIR, <<"star">>, LogName(<<"star_map_">> \o w))}
        [] j.rule = "hisat2_map" ->
             {Join3(LOG_DIR, <<"hisat2">>, LogName(<<"hisat2_map_">> \o w)),
              Join3(LOG_DIR, <<"hisat2">>, LogName(<<"samtools", ".", "hisat2", ".">> \o w))}
        [] j.rule = "index_bam" -> {Join2(LOG_DIR, LogName(<<"samtools_index_">> \o w))}
        [] j.rule = "salmon_index" -> {Join3(LOG_DIR, Salmon, LogName(<<"salmon_index">>))}
        [] j.rule = "salmon_quant" ->
             {Join3(LOG_DIR, Salmon, LogName(<<"salmon_quant_">> \o w))}
        [] j.rule = "counts_from_SALMON" ->
             {Join3(LOG_DIR, Salmon, LogName(<<"salmon_import_counts">>))}
        [] j.rule = "coverage_megadepth" ->
             {Join3(LOG_DIR, m, LogName(<<"coverage_megadepth", ".">> \o w))}
        [] j.rule = "coverage_bamCoverage" ->
             {Join3(LOG_DIR, m, LogName(<<"coverage_bamCoverage", ".", "forward", ".">> \o w)),
              Join3(LOG_DIR, m, LogName(<<"coverage_bamCoverage", ".", "reverse", ".">> \o w)),
              Join3(LOG_DIR, m, LogName(<<"coverage_bamCoverage", ".">> \o w))}
        [] j.rule = "multiqc" -> {Join2(LOG_DIR, LogName(<<"multiqc", ".">> \o m))}
        [] j.rule = "count_reads" ->
             {Join3(LOG_DIR, m, LogName(w \o <<".", "count_reads">>))}
        [] j.rule = "collate_read_counts" ->
             {Join3(LOG_DIR, m, LogName(<<"collate_read_counts">>))}
        [] j.rule = "norm_counts_deseq" ->
             {Join3(LOG_DIR, m, LogName(<<"norm_counts_deseq">>))}
        [] j.rule = "report1" -> {Join3(LOG_DIR, m, LogName(w \o <<".", "report">>))}
        [] j.rule = "deseq_collate_report1" ->
             {Join3(LOG_DIR, m, LogName(<<"collate_deseq", ".", "report">>))}
        [] j.rule = "report2" ->
             {Join3(LOG_DIR, Salmon,
                    LogName(w \o <<".", "report", ".", "salmon", ".", "transcripts">>))}
        [] j.rule = "deseq_collate_report2" ->
             {Join3(LOG_DIR, Salmon, LogName(<<"collate_transcripts_deseq", ".", "report">>))}
        [] j.rule = "report3" ->
             {Join3(LOG_DIR, Salmon,
                    LogName(w \o <<".", "report", ".", "salmon", ".", "genes">>))}
        [] j.rule = "deseq_collate_report3" ->
             {Join3(LOG_DIR, Salmon, LogName(<<"collate_genes_deseq", ".", "report">>))}

\* the job has a log file
HasLog(j) == JobLogs(config, j) # {}

\* no log path of j is a log path of another job of the dag
OwnLogs(j) ==
  \A k \in DagJobs \ {j} : JobLogs(config, j) \cap JobLogs(config, k) = {}

\* C17: every job resolved for rule all (each of them runs an external
\* command) has a log path, and no two different jobs have a log path in
\* common.
C17_DedicatedLogPerJob ==
  pc = "onstart" /\ ValidBranches => \A j \in DagJobs : HasLog(j) /\ OwnLogs(j)


\* the files of the catalog group that no job of cf declares as an output
Unproduced(cf, catalog, name) ==
  LET index == OutputIndex(cf)
  IN  {f \in Range(catalog[name]) : ProducersIn(index, f) = {}}

\* C18: under valid branch selections every path of every group of the
\* catalog is declared as an output by some job instance of the
\* configuration, and resolving a requested catalog group never ends with a
\* required file that nothing produces.
C18_EveryCatalogPathHasProducer ==
  /\ pc = "select" => \A name \in DOMAIN targets : Unproduced(config, targets, name) = {}
  /\ pc = "error" => err.kind # "MissingInput"


\* the job declares the genome, the cDNA or the GTF file as an input
ReadsAnnotation(j) == JobInputs(config, j) \cap AnnotationInputs # {}

AnnotationCheck == Job("check_annotation_files", <<>>)
AnnotationRules == {"check_annotation_files", "record_annotation_files"}

\* the job waits, directly or transitively, for check_annotation_files
AfterAnnotationCheck(j) ==
  AnnotationCheck \in DagJobs /\ AnnotationCheck \in UpstreamClosure(Waits(j))

\* C19 (as claimed): among the jobs resolved for rule all, every job that
\* reads an annotation file, other than check_annotation_files and
\* record_annotation_files, waits directly or transitively for
\* check_annotation_files.
C19_AnnotationCheckedFirst ==
  pc = "onstart" /\ ValidBranches =>
    \A j \in DagJobs :
      ReadsAnnotation(j) /\ j.rule \notin AnnotationRules => AfterAnnotationCheck(j)

\* C19 (amended): the same, for a sample sheet with at least one sample.
C19_AnnotationCheckedFirstWithSamples ==
  pc = "onstart" /\ ValidBranches /\ SAMPLES # <<>> =>
    \A j \in DagJobs :
      ReadsAnnotation(j) /\ j.rule \notin AnnotationRules => AfterAnnotationCheck(j)

\* C19 witness: the default target is resolved for a sheet with samples and
\* an analysis; an index job, a count_reads job and a report job read
\* annotation files and wait for check_annotation_files.
C19_Witness ==
  /\ pc = "onstart" /\ ValidBranches /\ SAMPLES # <<>>
  /\ \A r \in {"salmon_index", "count_reads", "report1", "report3"} :
       \E j \in DagJobs : j.rule = r /\ ReadsAnnotation(j) /\ AfterAnnotationCheck(j)


TrimRules == {"trim_qc_reads_pe", "trim_qc_reads_se"}
ReadConsumerRules == {"star_map", "hisat2_map", "salmon_quant"}

\* every trimmed reads file a trimming job of the sample could declare
TrimmedReads(s) == {TrimmedR1(s), TrimmedR2(s), TrimmedSE(s)}

\* the one trimming job of the sample, of the rule its endedness asks for,
\* makes the reads that the mapping and salmon_quant jobs of the sample take
OneTrimmingJob(s) ==
  LET trims == RuleJobs(TrimRules, s)
      reads == Range(map_input(config, s))
  IN  /\ Cardinality(trims) = 1
      /\ Job("trim_qc_reads_pe", s) \in DagJobs <=> isSingleEnd(config, s) = "False"
      /\ Job("trim_qc_reads_se", s) \in DagJobs <=> isSingleEnd(config, s) = "True"
      /\ \A t \in trims :
           /\ Cardinality(JobInputs(config, t)) = IF t.rule = "trim_qc_reads_pe" THEN 2 ELSE 1
           /\ reads = JobOutputs(config, t) \cap TrimmedReads(s)
      /\ \A c \in RuleJobs(ReadConsumerRules, s) :
           /\ JobInputs(config, c) \cap UNION {TrimmedReads(x) : x \in Range(SAMPLES)} = reads
           /\ {u \in Waits(c) : u.rule \in TrimRules} = trims

\* C20: for uniquely named samples with one or two populated reads fields,
\* map_input and isSingleEnd agree on the endedness of every sample; when the
\* jobs resolved for rule all hold a mapping or salmon_quant job of a sample
\* (as they do for every sample under the default target), they hold exactly
\* one trimming job for it: trim_qc_reads_pe with two read inputs iff it is
\* paired-end, trim_qc_reads_se with one iff it is single-end, and the
\* mapping and salmon_quant jobs of the sample take the reads that job makes.
C20_OneTrimmingJobPerSample ==
  pc = "onstart" /\ ValidBranches =>
    \A s \in Range(SAMPLES) :
      /\ PopulatedReads(config, s) \in {1, 2}
      /\ isSingleEnd(config, s) = "True" <=> Len(map_input(config, s)) = 1
      /\ isSingleEnd(config, s) = "False" <=> Len(map_input(config, s)) = 2
      /\ Requested = <<"final-report">> => RuleJobs(ReadConsumerRules, s) # {}
      /\ RuleJobs(ReadConsumerRules, s) # {} => OneTrimmingJob(s)
      /\ RuleJobs(ReadConsumerRules, s) = {} => RuleJobs(TrimRules, s) = {}

\* C20 witness: the default target is resolved for a paired-end and a
\* single-end sample; a trimming job of either rule is among the jobs.
C20_Witness ==
  /\ pc = "onstart" /\ ValidBranches
  /\ Requested = <<"final-report">>
  /\ \E s, t \in Range(SAMPLES) :
       /\ isSingleEnd(config, s) = "False" /\ Job("trim_qc_reads_pe", s) \in DagJobs
       /\ isSingleEnd(config, t) = "True" /\ Job("trim_qc_reads_se", t) \in DagJobs

=============================================================================
